---- MODULE Spec2Model ----
(***************************************************************************)
(* Model of crates/endpoints/src/rag.rs: the RAG request shapes, the       *)
(* conversion between RagChatCompletionsRequest and ChatCompletionRequest, *)
(* the RagChatCompletionRequestBuilder and the serde JSON contract of the  *)
(* shapes.                                                                 *)
(*                                                                         *)
(* Representation.  Option<T> is a sequence of length at most one: None is *)
(* <<>> and Some(v) is <<v>>.  An f64/f32 is the literal it is written as  *)
(* ("1.0"), a u64/usize is a natural number, a String is a string, a Vec   *)
(* is a sequence.  Values of the types rag.rs imports from chat.rs         *)
(* (messages, tools, ...) are atoms.                                       *)
(***************************************************************************)
EXTENDS Integers, Sequences, FiniteSets, TLC

VARIABLES
    bpc,     \* builder chain: "idle" | "building" | "built"
    req,     \* RagChatCompletionRequestBuilder.req
    newargs, \* the arguments RagChatCompletionRequestBuilder::new was called with
    last,    \* the last builder call and its argument
    built,   \* Option of the request build() returned
    cpc,     \* conversions: "idle" | "rag" | "chat"
    rag,     \* Option of the RagChatCompletionsRequest at hand
    chat,    \* Option of the ChatCompletionRequest at hand
    orig,    \* Option of the request the conversions started from
    cargs,   \* Option of the (qdrant_url, qdrant_collection_name, limit) last given
    jpc,     \* serde: "idle" | "value" | "encoded" | "decoded"
    val,     \* the value to encode
    json,    \* Option of the JSON text produced, as a tree
    dec,     \* Option of the decoding result
    features \* the features of serde_json the program is built with

vars ==
    <<bpc, req, newargs, last, built, cpc, rag, chat, orig, cargs, jpc, val, json, dec,
      features>>

bvars == <<bpc, req, newargs, last, built>>
cvars == <<cpc, rag, chat, orig, cargs>>
jvars == <<jpc, val, json, dec, features>>

----------------------------------------------------------------------------
(* Bounds of the model. *)

\* u64 arguments and field values range over 0..MaxCount
MaxCount == 2
\* message lists have at most MaxMsgs messages
MaxMsgs == 2
\* a RetrieveObject has at most MaxPoints points
MaxPoints == 2

None == <<>>
Some(v) == <<v>>
IsSome(o) == Len(o) = 1
IsNone(o) == Len(o) = 0
Unwrap(o) == o[1]
Opt(S) == {None} \cup {Some(v) : v \in S}

Counts == 0..MaxCount
Floats == {"0.5", "1.0"}
Penalties == {"0.0", "0.5"}
Urls == {"", "http://localhost:6333"}
Collections == {"", "docs"}
StopLists == {<<"END">>}
LogitBiases == {[t \in {"50256"} |-> "0.5"]}
Users == {"user-1"}

\* The parts of the state a specification does not use stay as they are here.
BuilderIdle ==
    /\ bpc = "idle" /\ req = None /\ newargs = None /\ last = None /\ built = None
ConvIdle ==
    /\ cpc = "idle" /\ rag = None /\ chat = None /\ orig = None /\ cargs = None
\* serde_json reads a float to the last bit only when built with the feature
\* float_roundtrip; which features a build enables is not said in rag.rs.
Features == SUBSET {"float_roundtrip"}
JsonIdle ==
    /\ jpc = "idle" /\ val = None /\ json = None /\ dec = None /\ features = {}

----------------------------------------------------------------------------
(* RagChatCompletionRequestBuilder *)

BuilderNew_floor16(messages, qdrant_url, qdrant_collection_name, limit) ==
    [ chat_model             |-> Some("dummy-chat-model"),
      messages               |-> messages,
      embedding_model        |-> "dummy-embedding-model",
      encoding_format        |-> Some("float"),
      qdrant_url             |-> qdrant_url,
      qdrant_collection_name |-> qdrant_collection_name,
      limit                  |-> limit,
      temperature            |-> Some("1.0"),
      top_p                  |-> Some("1.0"),
      n_choice               |-> Some(1),
      stream                 |-> Some(FALSE),
      stream_options         |-> None,
      stop                   |-> None,
      max_tokens             |-> Some(16),
      presence_penalty       |-> Some("0.0"),
      frequency_penalty      |-> Some("0.0"),
      logit_bias             |-> None,
      user                   |-> None,
      response_format        |-> None,
      tool_choice            |-> None,
      tools                  |-> None,
      context_window         |-> Some(1) ]

\* RagChatCompletionRequestBuilder::new
BuilderNew(messages, qdrant_url, qdrant_collection_name, limit) ==
    [ chat_model             |-> Some("dummy-chat-model"),
      messages               |-> messages,
      embedding_model        |-> "dummy-embedding-model",
      encoding_format        |-> Some("float"),
      qdrant_url             |-> qdrant_url,
      qdrant_collection_name |-> qdrant_collection_name,
      limit                  |-> limit,
      temperature            |-> Some("1.0"),
      top_p                  |-> Some("1.0"),
      n_choice               |-> Some(1),
      stream                 |-> Some(FALSE),
      stream_options         |-> None,
      stop                   |-> None,
      max_tokens             |-> Some(1024),
      presence_penalty       |-> Some("0.0"),
      frequency_penalty      |-> Some("0.0"),
      logit_bias             |-> None,
      user                   |-> None,
      response_format        |-> None,
      tool_choice            |-> None,
      tools                  |-> None,
      context_window         |-> Some(1) ]

\* ChatCompletionRequestSampling, the argument of with_sampling
Temperature(t) == [kind |-> "Temperature", v |-> t]
TopP(p) == [kind |-> "TopP", v |-> p]
Samplings == {Temperature(t) : t \in Floats} \cup {TopP(p) : p \in Floats}

with_sampling_noreset(r, sampling) ==
    IF sampling.kind = "Temperature"
    THEN [r EXCEPT !.temperature = Some(sampling.v)]
    ELSE [r EXCEPT !.top_p = Some(sampling.v)]

with_sampling(r, sampling) ==
    LET pair == IF sampling.kind = "Temperature"
                THEN <<sampling.v, "1.0">>
                ELSE <<"1.0", sampling.v>>
    IN [r EXCEPT !.temperature = Some(pair[1]), !.top_p = Some(pair[2])]

with_n_choices_nofloor(r, n) == [r EXCEPT !.n_choice = Some(n)]

with_n_choices(r, n) ==
    LET n_choice == IF n < 1 THEN 1 ELSE n
    IN [r EXCEPT !.n_choice = Some(n_choice)]

with_stream(r, flag) == [r EXCEPT !.stream = Some(flag)]

with_stop(r, stop) == [r EXCEPT !.stop = Some(stop)]

with_max_tokens_floor1024(r, max_tokens) ==
    [r EXCEPT !.max_tokens = Some(IF max_tokens < 1 THEN 1024 ELSE max_tokens)]

with_max_tokens(r, max_tokens) ==
    LET mt == IF max_tokens < 1 THEN 16 ELSE max_tokens
    IN [r EXCEPT !.max_tokens = Some(mt)]

with_presence_penalty(r, penalty) == [r EXCEPT !.presence_penalty = Some(penalty)]

with_frequency_penalty_both(r, penalty) ==
    [r EXCEPT !.frequency_penalty = Some(penalty), !.presence_penalty = Some(penalty)]

with_frequency_penalty(r, penalty) == [r EXCEPT !.frequency_penalty = Some(penalty)]

with_logits_bias(r, map) == [r EXCEPT !.logit_bias = Some(map)]

with_user(r, user) == [r EXCEPT !.user = Some(user)]

with_context_window(r, context_window) ==
    [r EXCEPT !.context_window = Some(context_window)]

\* RagChatCompletionRequestBuilder::build
build(r) == r

Call(op, arg) == [op |-> op, arg |-> arg]

\* The arguments of new: no validation, so the empty message list, the empty
\* URL and limit 0 are among them.
NewArgs ==
    { [messages |-> <<>>, qdrant_url |-> "", qdrant_collection_name |-> "", limit |-> 0] }
    \cup
    { [messages |-> m, qdrant_url |-> "http://localhost:6333",
       qdrant_collection_name |-> "docs", limit |-> MaxCount]
      : m \in {[i \in 1..MaxMsgs |-> IF i = 1 THEN "msg_system" ELSE "msg_user"]} }

InitBuilder ==
    /\ \E a \in NewArgs :
          /\ newargs = Some(a)
          /\ req = Some(BuilderNew(a.messages, a.qdrant_url, a.qdrant_collection_name, a.limit))
    /\ bpc = "building"
    /\ last = Some(Call("new", 0))
    /\ built = None
    /\ ConvIdle
    /\ JsonIdle

\* One setter call of the chain: the builder is consumed and returned.
Setter(op, arg, r) ==
    /\ bpc = "building"
    /\ req' = Some(r)
    /\ last' = Some(Call(op, arg))
    /\ UNCHANGED <<bpc, newargs, built, cvars, jvars>>

WithSampling ==
    \E s \in Samplings : Setter("with_sampling", s, with_sampling(Unwrap(req), s))
WithNChoices ==
    \E n \in Counts : Setter("with_n_choices", n, with_n_choices(Unwrap(req), n))
WithStream ==
    \E f \in BOOLEAN : Setter("with_stream", f, with_stream(Unwrap(req), f))
WithStop ==
    \E s \in StopLists : Setter("with_stop", s, with_stop(Unwrap(req), s))
WithMaxTokens ==
    \E n \in Counts : Setter("with_max_tokens", n, with_max_tokens(Unwrap(req), n))
WithPresencePenalty ==
    \E p \in Penalties :
        Setter("with_presence_penalty", p, with_presence_penalty(Unwrap(req), p))
WithFrequencyPenalty ==
    \E p \in Penalties :
        Setter("with_frequency_penalty", p, with_frequency_penalty(Unwrap(req), p))
WithLogitsBias ==
    \E m \in LogitBiases : Setter("with_logits_bias", m, with_logits_bias(Unwrap(req), m))
WithUser ==
    \E u \in Users : Setter("with_user", u, with_user(Unwrap(req), u))
WithContextWindow ==
    \E n \in Counts :
        Setter("with_context_window", n, with_context_window(Unwrap(req), n))

Build ==
    /\ bpc = "building"
    /\ built' = Some(build(Unwrap(req)))
    /\ bpc' = "built"
    /\ UNCHANGED <<req, newargs, last, cvars, jvars>>

NextBuilder ==
    \/ WithSampling
    \/ WithNChoices
    \/ WithStream
    \/ WithStop
    \/ WithMaxTokens
    \/ WithPresencePenalty
    \/ WithFrequencyPenalty
    \/ WithLogitsBias
    \/ WithUser
    \/ WithContextWindow
    \/ Build

SpecBuilder == InitBuilder /\ [][NextBuilder]_vars

----------------------------------------------------------------------------
(* Claims about the builder, checked under SpecBuilder. *)

Building == bpc \in {"building", "built"}
R == Unwrap(req)
LastCall == Unwrap(last)
LastOp == LastCall.op
LastArg == LastCall.arg

C4_Stored ==
    Building =>
      /\ LastOp = "with_n_choices" =>
            R.n_choice = Some(IF LastArg < 1 THEN 1 ELSE LastArg)
      /\ LastOp = "with_max_tokens" =>
            R.max_tokens = Some(IF LastArg < 1 THEN 16 ELSE LastArg)
      /\ LastOp = "new" => R.max_tokens = Some(1024)
      /\ bpc = "building" => ENABLED Build
      /\ bpc = "built" => built = Some(R)

C4_Kept ==
    (bpc = "building" /\ LastOp' # "with_max_tokens") =>
        Unwrap(req').max_tokens = R.max_tokens

\* C4: with_n_choices(n) stores n_choice = 1 when n < 1 and n otherwise;
\* with_max_tokens(n) stores max_tokens = 16 when n < 1 and n otherwise; only
\* with_max_tokens changes max_tokens, which new sets to 1024; after a clamp the
\* chain goes on and build() returns the request.
C4_FloorLaw == []C4_Stored /\ [][C4_Kept]_vars

C4_Witness ==
    /\ bpc = "built"
    /\ LastCall = Call("with_n_choices", 0)
    /\ Unwrap(built).n_choice = Some(1)
    /\ Unwrap(built).max_tokens = Some(16)

\* C5: right after with_sampling(Temperature(t)) the request has temperature = t
\* and top_p = 1.0; right after with_sampling(TopP(p)) it has top_p = p and
\* temperature = 1.0.
C5_SamplingExclusive ==
    (bpc = "building" /\ LastOp = "with_sampling") =>
        IF LastArg.kind = "Temperature"
        THEN R.temperature = Some(LastArg.v) /\ R.top_p = Some("1.0")
        ELSE R.top_p = Some(LastArg.v) /\ R.temperature = Some("1.0")

C5_Witness ==
    /\ bpc = "building"
    /\ LastCall = Call("with_sampling", TopP("0.5"))
    /\ R.temperature = Some("1.0")
    /\ R.top_p = Some("0.5")
    /\ R.n_choice = Some(MaxCount)

\* C6: new(messages, url, coll, limit).build() with no setter called returns the
\* arguments and the fixed defaults, whatever the arguments are.
C6_Defaults ==
    (bpc = "built" /\ LastOp = "new") =>
        LET b == Unwrap(built)
            a == Unwrap(newargs)
        IN /\ b.messages = a.messages
           /\ b.qdrant_url = a.qdrant_url
           /\ b.qdrant_collection_name = a.qdrant_collection_name
           /\ b.limit = a.limit
           /\ b.chat_model = Some("dummy-chat-model")
           /\ b.embedding_model = "dummy-embedding-model"
           /\ b.encoding_format = Some("float")
           /\ b.temperature = Some("1.0")
           /\ b.top_p = Some("1.0")
           /\ b.n_choice = Some(1)
           /\ b.stream = Some(FALSE)
           /\ b.max_tokens = Some(1024)
           /\ b.presence_penalty = Some("0.0")
           /\ b.frequency_penalty = Some("0.0")
           /\ b.context_window = Some(1)
           /\ b.stream_options = None
           /\ b.stop = None
           /\ b.logit_bias = None
           /\ b.user = None
           /\ b.response_format = None
           /\ b.tools = None
           /\ b.tool_choice = None

C6_Witness ==
    /\ bpc = "built"
    /\ LastOp = "new"
    /\ Unwrap(built).messages = <<>>
    /\ Unwrap(built).qdrant_url = ""
    /\ Unwrap(built).limit = 0

SamplingOk(r) ==
    /\ IsSome(r.n_choice) /\ Unwrap(r.n_choice) >= 1
    /\ IsSome(r.max_tokens) /\ Unwrap(r.max_tokens) >= 1
    /\ IsSome(r.temperature) /\ IsSome(r.top_p)
    /\ (r.temperature = Some("1.0") \/ r.top_p = Some("1.0"))

\* C9: in every state of the chain the request has n_choice >= 1, max_tokens >= 1
\* and temperature and top_p both present with one of them 1.0, and so has the
\* request build() returns.
C9_BuilderInvariant ==
    Building => /\ SamplingOk(R)
                /\ bpc = "built" => SamplingOk(Unwrap(built))

C9_Witness ==
    /\ bpc = "built"
    /\ LastCall = Call("with_max_tokens", 0)
    /\ R.n_choice = Some(1)
    /\ R.temperature = Some("0.5")
    /\ R.stream = Some(TRUE)

Fields ==
    { "chat_model", "messages", "embedding_model", "encoding_format", "qdrant_url",
      "qdrant_collection_name", "limit", "temperature", "top_p", "n_choice", "stream",
      "stream_options", "stop", "max_tokens", "presence_penalty", "frequency_penalty",
      "logit_bias", "user", "response_format", "tool_choice", "tools", "context_window" }

\* The fields the claim allows a call to change.
Targets(op) ==
    CASE op = "with_sampling" -> {"temperature", "top_p"}
      [] op = "with_n_choices" -> {"n_choice"}
      [] op = "with_stream" -> {"stream"}
      [] op = "with_stop" -> {"stop"}
      [] op = "with_max_tokens" -> {"max_tokens"}
      [] op = "with_presence_penalty" -> {"presence_penalty"}
      [] op = "with_frequency_penalty" -> {"frequency_penalty"}
      [] op = "with_logits_bias" -> {"logit_bias"}
      [] op = "with_user" -> {"user"}
      [] op = "with_context_window" -> {"context_window"}
      [] OTHER -> {}

C10_Frame ==
    (bpc = "building" /\ bpc' = "building") =>
        \A f \in Fields \ Targets(LastOp') : Unwrap(req')[f] = R[f]

C10_LastWins ==
    Building =>
      /\ LastOp = "with_stream" => R.stream = Some(LastArg)
      /\ LastOp = "with_stop" => R.stop = Some(LastArg)
      /\ LastOp = "with_presence_penalty" => R.presence_penalty = Some(LastArg)
      /\ LastOp = "with_frequency_penalty" => R.frequency_penalty = Some(LastArg)
      /\ LastOp = "with_logits_bias" => R.logit_bias = Some(LastArg)
      /\ LastOp = "with_user" => R.user = Some(LastArg)
      /\ LastOp = "with_context_window" => R.context_window = Some(LastArg)

C10_Untouched ==
    bpc = "built" =>
        LET b == Unwrap(built)
            a == Unwrap(newargs)
        IN /\ b.messages = a.messages
           /\ b.qdrant_url = a.qdrant_url
           /\ b.qdrant_collection_name = a.qdrant_collection_name
           /\ b.limit = a.limit
           /\ b.embedding_model = "dummy-embedding-model"
           /\ b.encoding_format = Some("float")
           /\ b.chat_model = Some("dummy-chat-model")
           /\ b.stream_options = None
           /\ b.response_format = None
           /\ b.tools = None
           /\ b.tool_choice = None

\* C10: a setter changes only its own target field(s) of the request, the last
\* call of a setter decides its field, and the built request still has the
\* arguments of new and the defaults no setter reaches.
C10_FrameProperty == [](C10_LastWins /\ C10_Untouched) /\ [][C10_Frame]_vars

C10_Witness ==
    /\ bpc = "built"
    /\ LastCall = Call("with_frequency_penalty", "0.0")
    /\ R.frequency_penalty = Some("0.0")
    /\ R.presence_penalty = Some("0.5")
    /\ R.user = Some("user-1")
    /\ R.stop = Some(<<"END">>)
    /\ R.context_window = Some(0)

----------------------------------------------------------------------------
(* RagChatCompletionsRequest <-> ChatCompletionRequest *)

as_chat_completions_request_nowindow(self) ==
    [ model             |-> self.chat_model,
      messages          |-> self.messages,
      temperature       |-> self.temperature,
      top_p             |-> self.top_p,
      n_choice          |-> self.n_choice,
      stream            |-> self.stream,
      stream_options    |-> self.stream_options,
      stop              |-> self.stop,
      max_tokens        |-> self.max_tokens,
      presence_penalty  |-> self.presence_penalty,
      frequency_penalty |-> self.frequency_penalty,
      logit_bias        |-> self.logit_bias,
      user              |-> self.user,
      functions         |-> None,
      function_call     |-> None,
      response_format   |-> self.response_format,
      tool_choice       |-> self.tool_choice,
      tools             |-> self.tools,
      context_window    |-> None ]

as_chat_completions_request_swapped(self) ==
    [ as_chat_completions_request_nowindow(self)
      EXCEPT !.context_window = self.context_window,
             !.temperature = self.top_p,
             !.top_p = self.temperature ]

\* RagChatCompletionsRequest::as_chat_completions_request
as_chat_completions_request(self) ==
    [ model             |-> self.chat_model,
      messages          |-> self.messages,
      temperature       |-> self.temperature,
      top_p             |-> self.top_p,
      n_choice          |-> self.n_choice,
      stream            |-> self.stream,
      stream_options    |-> self.stream_options,
      stop              |-> self.stop,
      max_tokens        |-> self.max_tokens,
      presence_penalty  |-> self.presence_penalty,
      frequency_penalty |-> self.frequency_penalty,
      logit_bias        |-> self.logit_bias,
      user              |-> self.user,
      functions         |-> None,
      function_call     |-> None,
      response_format   |-> self.response_format,
      tool_choice       |-> self.tool_choice,
      tools             |-> self.tools,
      context_window    |-> self.context_window ]

from_chat_completions_request_swapped(chat_completions_request, qdrant_url, qdrant_collection_name, limit) ==
    [ chat_model             |-> chat_completions_request.model,
      messages               |-> chat_completions_request.messages,
      embedding_model        |-> "dummy-embedding-model",
      encoding_format        |-> None,
      qdrant_url             |-> qdrant_collection_name,
      qdrant_collection_name |-> qdrant_url,
      limit                  |-> limit,
      temperature            |-> chat_completions_request.temperature,
      top_p                  |-> chat_completions_request.top_p,
      n_choice               |-> chat_completions_request.n_choice,
      stream                 |-> chat_completions_request.stream,
      stream_options         |-> chat_completions_request.stream_options,
      stop                   |-> chat_completions_request.stop,
      max_tokens             |-> chat_completions_request.max_tokens,
      presence_penalty       |-> chat_completions_request.presence_penalty,
      frequency_penalty      |-> chat_completions_request.frequency_penalty,
      logit_bias             |-> chat_completions_request.logit_bias,
      user                   |-> chat_completions_request.user,
      response_format        |-> chat_completions_request.response_format,
      tool_choice            |-> chat_completions_request.tool_choice,
      tools                  |-> chat_completions_request.tools,
      context_window         |-> chat_completions_request.context_window ]

\* RagChatCompletionsRequest::from_chat_completions_request
from_chat_completions_request(chat_completions_request, qdrant_url, qdrant_collection_name, limit) ==
    [ chat_model             |-> chat_completions_request.model,
      messages               |-> chat_completions_request.messages,
      embedding_model        |-> "dummy-embedding-model",
      encoding_format        |-> None,
      qdrant_url             |-> qdrant_url,
      qdrant_collection_name |-> qdrant_collection_name,
      limit                  |-> limit,
      temperature            |-> chat_completions_request.temperature,
      top_p                  |-> chat_completions_request.top_p,
      n_choice               |-> chat_completions_request.n_choice,
      stream                 |-> chat_completions_request.stream,
      stream_options         |-> chat_completions_request.stream_options,
      stop                   |-> chat_completions_request.stop,
      max_tokens             |-> chat_completions_request.max_tokens,
      presence_penalty       |-> chat_completions_request.presence_penalty,
      frequency_penalty      |-> chat_completions_request.frequency_penalty,
      logit_bias             |-> chat_completions_request.logit_bias,
      user                   |-> chat_completions_request.user,
      response_format        |-> chat_completions_request.response_format,
      tool_choice            |-> chat_completions_request.tool_choice,
      tools                  |-> chat_completions_request.tools,
      context_window         |-> chat_completions_request.context_window ]

\* The message list of the requests converted: MaxMsgs messages, in an order
\* a reordering would change.
ConvMessages == [i \in 1..MaxMsgs |-> IF i = 1 THEN "msg_system" ELSE "msg_user"]

\* RagChatCompletionsRequest values: every optional field independently absent
\* or present.
RagRequests ==
    [ chat_model             : Opt({"model-a"}),
      messages               : {ConvMessages},
      embedding_model        : {"custom-embedding-model"},
      encoding_format        : Opt({"float", "base64"}),
      qdrant_url             : {"http://localhost:6333"},
      qdrant_collection_name : {"docs"},
      limit                  : {MaxCount},
      temperature            : Opt({"0.5"}),
      top_p                  : Opt({"1.0"}),
      n_choice               : Opt({1}),
      stream                 : Opt({TRUE}),
      stream_options         : Opt({"stream_options_usage"}),
      stop                   : Opt(StopLists),
      max_tokens             : Opt({MaxCount + 1}),
      presence_penalty       : Opt({"1.0"}),
      frequency_penalty      : Opt({"0.5"}),
      logit_bias             : Opt(LogitBiases),
      user                   : Opt(Users),
      response_format        : Opt({"response_format_json"}),
      tool_choice            : Opt({"tool_choice_auto"}),
      tools                  : Opt({<<"tool_get_weather">>}),
      context_window         : Opt({0}) ]

\* ChatCompletionRequest values, with and without the legacy function-call data.
ChatRequests ==
    [ model             : Opt({"model-a"}),
      messages          : {ConvMessages},
      temperature       : Opt({"0.5"}),
      top_p             : Opt({"1.0"}),
      n_choice          : Opt({1}),
      stream            : Opt({TRUE}),
      stream_options    : Opt({"stream_options_usage"}),
      stop              : Opt(StopLists),
      max_tokens        : Opt({MaxCount + 1}),
      presence_penalty  : Opt({"1.0"}),
      frequency_penalty : Opt({"0.5"}),
      logit_bias        : Opt(LogitBiases),
      user              : Opt(Users),
      functions         : {None},
      function_call     : {None},
      response_format   : Opt({"response_format_json"}),
      tool_choice       : Opt({"tool_choice_auto"}),
      tools             : Opt({<<"tool_get_weather">>}),
      context_window    : Opt({0}) ]
    \cup
    [ model             : Opt({"model-a"}),
      messages          : {ConvMessages},
      temperature       : Opt({"0.5"}),
      top_p             : Opt({"1.0"}),
      n_choice          : Opt({1}),
      stream            : Opt({TRUE}),
      stream_options    : Opt({"stream_options_usage"}),
      stop              : Opt(StopLists),
      max_tokens        : Opt({MaxCount + 1}),
      presence_penalty  : Opt({"1.0"}),
      frequency_penalty : Opt({"0.5"}),
      logit_bias        : Opt(LogitBiases),
      user              : Opt(Users),
      functions         : {Some(<<"function_get_weather">>)},
      function_call     : {Some("function_call_auto")},
      response_format   : Opt({"response_format_json"}),
      tool_choice       : Opt({"tool_choice_auto"}),
      tools             : Opt({<<"tool_get_weather">>}),
      context_window    : Opt({0}) ]

\* The (qdrant_url, qdrant_collection_name, limit) given to
\* from_p.
ConvArgs ==
    { [qdrant_url |-> "http://localhost:6333", qdrant_collection_name |-> "docs",
       limit |-> MaxCount],
      [qdrant_url |-> "", qdrant_collection_name |-> "other", limit |-> 0] }

\* r.as_chat_completions_request(): r is borrowed and stays as it is.
AsChat ==
    /\ cpc \in {"rag", "lifted"}
    /\ chat' = Some(as_chat_completions_request(Unwrap(rag)))
    /\ cpc' = IF cpc = "rag" THEN "projected" ELSE "reprojected"
    /\ UNCHANGED <<rag, orig, cargs, bvars, jvars>>

\* RagChatCompletionsRequest::from_chat_completions_request(p, url, coll, limit):
\* p is moved into the call.
FromChat ==
    /\ cpc \in {"chat", "projected"}
    /\ \E a \in ConvArgs :
          /\ rag' = Some(from_chat_completions_request(
                            Unwrap(chat), a.qdrant_url, a.qdrant_collection_name, a.limit))
          /\ cargs' = Some(a)
    /\ chat' = None
    /\ cpc' = IF cpc = "chat" THEN "lifted" ELSE "restored"
    /\ UNCHANGED <<orig, bvars, jvars>>

NextConv ==
    \/ AsChat
    \/ FromChat

\* A RAG request, projected and then restored.
InitRoundTrip ==
    /\ cpc = "rag"
    /\ \E r \in RagRequests : rag = Some(r) /\ orig = Some(r)
    /\ chat = None /\ cargs = None
    /\ BuilderIdle
    /\ JsonIdle

SpecRoundTrip == InitRoundTrip /\ [][NextConv]_vars

\* A plain chat request, lifted to a RAG request and then projected again.
InitFromChat ==
    /\ cpc = "chat"
    /\ \E p \in ChatRequests : chat = Some(p) /\ orig = Some(p)
    /\ rag = None /\ cargs = None
    /\ BuilderIdle
    /\ JsonIdle

SpecFromChat == InitFromChat /\ [][NextConv]_vars

----------------------------------------------------------------------------
(* Claims about the conversions. *)

\* The chat/sampling fields the two request types share under one name.
SharedFields ==
    { "messages", "temperature", "top_p", "n_choice", "stream", "stream_options",
      "stop", "max_tokens", "presence_penalty", "frequency_penalty", "logit_bias",
      "user", "response_format", "tools", "tool_choice" }

\* C1: from_chat_completions_request(r.as_chat_completions_request(),
\* r.qdrant_url, r.qdrant_collection_name, r.limit) equals r in chat_model, in
\* every other chat/sampling field and in context_window, and its
\* encoding_format is absent whatever r's was.
C1_RoundTrip ==
    cpc = "restored" =>
        LET r == Unwrap(orig)
            b == Unwrap(rag)
            a == Unwrap(cargs)
        IN /\ b.encoding_format = None
           /\ ( /\ a.qdrant_url = r.qdrant_url
                /\ a.qdrant_collection_name = r.qdrant_collection_name
                /\ a.limit = r.limit )
              => /\ b.chat_model = r.chat_model
                 /\ \A f \in SharedFields : b[f] = r[f]
                 /\ b.context_window = r.context_window

C1_Witness ==
    /\ cpc = "restored"
    /\ Unwrap(cargs).limit = Unwrap(orig).limit
    /\ Unwrap(orig).encoding_format = Some("base64")
    /\ Unwrap(rag).encoding_format = None
    /\ Unwrap(rag).context_window = Some(0)
    /\ Unwrap(rag).temperature = Some("0.5")
    /\ Unwrap(rag).top_p = None
    /\ Unwrap(rag).tools = Some(<<"tool_get_weather">>)

\* C2: r.as_chat_completions_request() has model = r.chat_model, every other
\* chat/sampling field as in r (absent exactly when absent in r), functions and
\* function_call absent, and leaves r as it was.
C2_Projection ==
    cpc = "projected" =>
        LET r == Unwrap(orig)
            p == Unwrap(chat)
        IN /\ p.model = r.chat_model
           /\ \A f \in SharedFields : p[f] = r[f]
           /\ p.context_window = r.context_window
           /\ p.functions = None
           /\ p.function_call = None
           /\ rag = orig

C2_Witness ==
    /\ cpc = "projected"
    /\ Unwrap(chat).model = Some("model-a")
    /\ Unwrap(chat).messages = ConvMessages
    /\ Unwrap(chat).temperature = None
    /\ Unwrap(chat).top_p = Some("1.0")
    /\ Unwrap(chat).user = Some("user-1")
    /\ Unwrap(chat).stop = None

\* C3: from_chat_completions_request(p, url, coll, limit) never fails and returns
\* a request with p's chat/sampling fields and context_window, the placeholder
\* embedding model, no encoding_format, the given url, collection and limit, and
\* nothing of p's functions / function_call: projecting it again gives both
\* absent.
C3_FromChat ==
    /\ cpc = "chat" => ENABLED FromChat
    /\ cpc \in {"lifted", "reprojected"} =>
        LET p == Unwrap(orig)
            r == Unwrap(rag)
            a == Unwrap(cargs)
        IN /\ r.chat_model = p.model
           /\ \A f \in SharedFields : r[f] = p[f]
           /\ r.context_window = p.context_window
           /\ r.embedding_model = "dummy-embedding-model"
           /\ r.encoding_format = None
           /\ r.qdrant_url = a.qdrant_url
           /\ r.qdrant_collection_name = a.qdrant_collection_name
           /\ r.limit = a.limit
           /\ DOMAIN r = Fields
    /\ cpc = "reprojected" =>
           /\ Unwrap(chat).functions = None
           /\ Unwrap(chat).function_call = None

C3_Witness ==
    /\ cpc = "reprojected"
    /\ IsSome(Unwrap(orig).functions)
    /\ IsSome(Unwrap(orig).function_call)
    /\ Unwrap(chat).functions = None
    /\ Unwrap(rag).qdrant_collection_name = "other"
    /\ Unwrap(rag).limit = 0
    /\ Unwrap(rag).n_choice = Some(1)

----------------------------------------------------------------------------
(* RagEmbeddingRequest *)

\* InputText of embeddings.rs: a string or an array of strings.
InputString(s) == [kind |-> "String", text |-> s]
InputArrayOfStrings(a) == [kind |-> "ArrayOfStrings", texts |-> a]

\* RagEmbeddingRequest::new
RagEmbeddingRequestNew(input, qdrant_url, qdrant_collection_name) ==
    [ embedding_request      |-> [ model           |-> "dummy-embedding-model",
                                   input           |-> InputArrayOfStrings(input),
                                   encoding_format |-> None,
                                   user            |-> None ],
      qdrant_url             |-> qdrant_url,
      qdrant_collection_name |-> qdrant_collection_name ]

\* RagEmbeddingRequest::from_embedding_request
from_embedding_request(embedding_request, qdrant_url, qdrant_collection_name) ==
    [ embedding_request      |-> embedding_request,
      qdrant_url             |-> qdrant_url,
      qdrant_collection_name |-> qdrant_collection_name ]

----------------------------------------------------------------------------
(* JSON: a document is a tree; an object is the sequence of its members, *)
(* <<key, value>>, in the order they are written.                         *)

JNull == [k |-> "null"]
JStr(s) == [k |-> "str", v |-> s]
JUint(n) == [k |-> "uint", v |-> n]
JFloat(x) == [k |-> "float", v |-> x]
JBool(b) == [k |-> "bool", v |-> b]
JArr(a) == [k |-> "arr", v |-> a]
JObj(members) == [k |-> "obj", v |-> members]
\* the JSON of a value of a type defined in chat.rs
JExt(x) == [k |-> "ext", v |-> x]

Keys(members) == {members[i][1] : i \in DOMAIN members}
HasKey(members, key) == key \in Keys(members)
Occurrences(members, key) == {i \in DOMAIN members : members[i][1] = key}
\* A reader that keeps one value per key keeps the one written last.
LastOccurrence(members, key) ==
    CHOOSE i \in Occurrences(members, key) : \A n \in Occurrences(members, key) : n <= i
Lookup(members, key) == members[LastOccurrence(members, key)][2]
\* what a reader finds under a key
JMissing == [k |-> "missing"]
Get(members, key) == IF HasKey(members, key) THEN Lookup(members, key) ELSE JMissing

RECURSIVE Concat(_)
Concat(ss) == IF ss = <<>> THEN <<>> ELSE Head(ss) \o Concat(Tail(ss))

\* The orders in which a HashMap with the keys S can hand out its entries: the
\* order is unspecified, so every one of them.
IterationOrders(S) ==
    {ks \in [1..Cardinality(S) -> S] : \A x \in S : \E i \in DOMAIN ks : ks[i] = x}

\* A field that is always written.
Field(key, j) == << <<key, j>> >>
\* An Option field without a serde attribute, oj the Option of its JSON: null
\* when None.
OptField(key, oj) == << <<key, IF IsNone(oj) THEN JNull ELSE Unwrap(oj)>> >>
\* An Option field with #[serde(skip_serializing_if = "Option::is_none")].
SkipNoneField(key, oj) == IF IsNone(oj) THEN <<>> ELSE << <<key, Unwrap(oj)>> >>

\* the floats that are not finite, by name
NonFinite == {"inf", "-inf", "NaN"}
\* The literal written for the finite float named x: serde_json writes the
\* sign of a power of ten that is not negative (1e+16).
ExponentSigned(x, E) ==
    IF E = {} \/ \E i \in E : SubSeq(x, i + 1, i + 1) \in {"+", "-"} THEN x
    ELSE SubSeq(x, 1, CHOOSE i \in E : TRUE) \o "+"
             \o SubSeq(x, (CHOOSE i \in E : TRUE) + 1, Len(x))
FloatText(x) == ExponentSigned(x, {i \in 1..Len(x) : SubSeq(x, i, i) = "e"})
\* serialize_f64 and serialize_f32 of serde_json: a float that is not finite
\* is written as null.
SerFloat(x) == IF x \in NonFinite THEN JNull ELSE JFloat(FloatText(x))

SerVecString(a) == JArr([i \in DOMAIN a |-> JStr(a[i])])
SerVecExt(a) == JArr([i \in DOMAIN a |-> JExt(a[i])])
\* HashMap<String, f64>, ks the order its iterator takes
SerMapF64(m, ks) == JObj([i \in DOMAIN ks |-> <<ks[i], SerFloat(m[ks[i]])>>])

\* The JSON of the value inside an Option.
OptStr(o) == [i \in DOMAIN o |-> JStr(o[i])]
OptUint(o) == [i \in DOMAIN o |-> JUint(o[i])]
OptFloat(o) == [i \in DOMAIN o |-> SerFloat(o[i])]
OptBool(o) == [i \in DOMAIN o |-> JBool(o[i])]
OptExt(o) == [i \in DOMAIN o |-> JExt(o[i])]
OptVecString(o) == [i \in DOMAIN o |-> SerVecString(o[i])]
OptVecExt(o) == [i \in DOMAIN o |-> SerVecExt(o[i])]
OptMapF64(o, ks) == [i \in DOMAIN o |-> SerMapF64(o[i], ks)]

\* InputText is written untagged.
SerInputText(i) == IF i.kind = "String" THEN JStr(i.text) ELSE SerVecString(i.texts)

\* EmbeddingRequest of embeddings.rs, as the tests of rag.rs show it written.
SerEmbeddingRequest(e) ==
    JObj(Concat(<< Field("model", JStr(e.model)),
                   Field("input", SerInputText(e.input)),
                   SkipNoneField("encoding_format", OptStr(e.encoding_format)),
                   SkipNoneField("user", OptStr(e.user)) >>))

\* #[derive(Serialize)] of RagEmbeddingRequest
SerRagEmbeddingRequest(r) ==
    JObj(Concat(<< Field("embeddings", SerEmbeddingRequest(r.embedding_request)),
                   Field("url", JStr(r.qdrant_url)),
                   Field("collection_name", JStr(r.qdrant_collection_name)) >>))

\* #[derive(Serialize)] of RagChatCompletionsRequest, ks the order the iterator
\* of logit_bias takes
SerRagChatCompletionsRequest(r, ks) ==
    JObj(Concat(<<
        SkipNoneField("chat_model", OptStr(r.chat_model)),
        Field("messages", SerVecExt(r.messages)),
        Field("embedding_model", JStr(r.embedding_model)),
        SkipNoneField("encoding_format", OptStr(r.encoding_format)),
        Field("qdrant_url", JStr(r.qdrant_url)),
        Field("qdrant_collection_name", JStr(r.qdrant_collection_name)),
        Field("limit", JUint(r.limit)),
        SkipNoneField("temperature", OptFloat(r.temperature)),
        SkipNoneField("top_p", OptFloat(r.top_p)),
        SkipNoneField("n_choice", OptUint(r.n_choice)),
        SkipNoneField("stream", OptBool(r.stream)),
        SkipNoneField("stream_options", OptExt(r.stream_options)),
        SkipNoneField("stop", OptVecString(r.stop)),
        SkipNoneField("max_tokens", OptUint(r.max_tokens)),
        SkipNoneField("presence_penalty", OptFloat(r.presence_penalty)),
        SkipNoneField("frequency_penalty", OptFloat(r.frequency_penalty)),
        SkipNoneField("logit_bias", OptMapF64(r.logit_bias, ks)),
        SkipNoneField("user", OptStr(r.user)),
        SkipNoneField("response_format", OptExt(r.response_format)),
        OptField("tools", OptVecExt(r.tools)),
        OptField("tool_choice", OptExt(r.tool_choice)),
        SkipNoneField("context_window", OptUint(r.context_window)) >>))

\* #[derive(Serialize)] of RagScoredPoint
SerRagScoredPoint(p) ==
    JObj(Concat(<< Field("source", JStr(p.source)), Field("score", SerFloat(p.score)) >>))

SerPoints(a) == JArr([i \in DOMAIN a |-> SerRagScoredPoint(a[i])])
OptPoints(o) == [i \in DOMAIN o |-> SerPoints(o[i])]

\* #[derive(Serialize)] of RetrieveObject
SerRetrieveObject(o) ==
    JObj(Concat(<< SkipNoneField("points", OptPoints(o.points)),
                   Field("limit", JUint(o.limit)),
                   Field("score_threshold", SerFloat(o.score_threshold)) >>))

\* Decoding gives the value or fails.
Ok(v) == [ok |-> TRUE, v |-> v]
Err == [ok |-> FALSE]

DeString(j) == IF j.k = "str" THEN Ok(j.v) ELSE Err
DeU64(j) == IF j.k = "uint" THEN Ok(j.v) ELSE Err
DeBool(j) == IF j.k = "bool" THEN Ok(j.v) ELSE Err
DeExt(j) == IF j.k = "ext" THEN Ok(j.v) ELSE Err

(* Numbers in JSON.  The derived Serialize and Deserialize of rag.rs write  *)
(* and read floats with serde_json, a crate rag.rs depends on; what        *)
(* follows is what it computes.  A float is named by the shortest digits   *)
(* that read back as the float, set as ryu::Buffer::format_finite sets     *)
(* them; the literal serde_json writes is that name with the sign of the   *)
(* exponent (FloatText).  Reading a literal is computed on natural numbers *)
(* of any size: a sequence of limbs base 2^12, least significant first, no *)
(* leading zero limb.  A value that is used more than once is computed     *)
(* once and handed on as a parameter.                                      *)

Limb == 2^12
One == <<1>>
Ten == <<10>>
LimbAt(a, i) == IF i \in DOMAIN a THEN a[i] ELSE 0
LeastOf(T) == CHOOSE l \in T : \A o \in T : l <= o
GreatestOf(T) == CHOOSE l \in T : \A o \in T : o <= l
Least(S) == LeastOf({l : l \in S})
Greatest(S) == GreatestOf({l : l \in S})
Trim(a) ==
    IF \A i \in DOMAIN a : a[i] = 0 THEN <<>>
    ELSE SubSeq(a, 1, Greatest({i \in DOMAIN a : a[i] # 0}))
\* The number whose limb i is t[i]: what a limb has beyond the base is carried
\* to the next limb.
RECURSIVE Carry(_)
Carry(t) ==
    IF \A i \in DOMAIN t : t[i] < Limb THEN t
    ELSE Carry(Trim([i \in 1..(Len(t) + 1) |->
                        (LimbAt(t, i) % Limb) + (LimbAt(t, i - 1) \div Limb)]))
Add(a, b) ==
    Carry(Trim([i \in 1..(IF Len(a) >= Len(b) THEN Len(a) ELSE Len(b)) |->
                   LimbAt(a, i) + LimbAt(b, i)]))
\* the sum of the a[j] * b[i + 1 - j] for lo <= j <= hi
RECURSIVE Column(_, _, _, _, _)
Column(a, b, i, lo, hi) ==
    IF lo > hi THEN 0
    ELSE IF lo = hi THEN a[lo] * b[i + 1 - lo]
    ELSE Column(a, b, i, lo, (lo + hi) \div 2) + Column(a, b, i, (lo + hi) \div 2 + 1, hi)
Mul(a, b) ==
    IF a = <<>> \/ b = <<>> THEN <<>>
    ELSE Carry(Trim([i \in 1..(Len(a) + Len(b) - 1) |->
                        Column(a, b, i, IF i + 1 - Len(b) >= 1 THEN i + 1 - Len(b) ELSE 1,
                               IF i <= Len(a) THEN i ELSE Len(a))]))
Cmp(a, b) ==
    IF Len(a) # Len(b) THEN (IF Len(a) < Len(b) THEN -1 ELSE 1)
    ELSE IF a = b THEN 0
    ELSE IF a[Greatest({i \in DOMAIN a : a[i] # b[i]})] < b[Greatest({i \in DOMAIN a : a[i] # b[i]})]
         THEN -1 ELSE 1
Pow2(k) == [i \in 1..(k \div 12 + 1) |-> IF i = k \div 12 + 1 THEN 2^(k % 12) ELSE 0]
\* b^k
RECURSIVE Pow(_, _)
PowSq(h, b) == IF h = <<>> THEN <<>> ELSE Mul(Mul(h, h), b)
Pow(b, k) == IF k = 0 THEN One ELSE PowSq(Pow(b, k \div 2), IF k % 2 = 1 THEN b ELSE One)
BitLen(a) ==
    IF a = <<>> THEN 0
    ELSE 12 * (Len(a) - 1) + Least({b \in 1..12 : a[Len(a)] < 2^b})
Odd(a) == LimbAt(a, 1) % 2 = 1

\* The quotient of n by d and whether it is exact: q is the quotient from bit
\* i + 1 up, and bit i is set when that keeps q times d within n.
RECURSIVE QuotBits(_, _, _, _)
QuotBits(q, i, n, d) ==
    IF i < 0 THEN [q |-> q, exact |-> Mul(q, d) = n]
    ELSE IF Cmp(Mul(Add(q, Pow2(i)), d), n) <= 0 THEN QuotBits(Add(q, Pow2(i)), i - 1, n, d)
    ELSE QuotBits(q, i - 1, n, d)
\* floor(n / d), below 2^bits
FloorQuot(n, d, bits) == QuotBits(<<>>, bits - 1, n, d)

\* the limbs of a from limb i + 1 up, modulo k
RECURSIVE RemAbove(_, _, _)
RemAbove(a, k, i) == IF i >= Len(a) THEN 0 ELSE (RemAbove(a, k, i + 1) * Limb + a[i + 1]) % k
\* floor(a / k) for a small k
DivSmall(a, k) == Trim([i \in 1..Len(a) |-> (RemAbove(a, k, i) * Limb + a[i]) \div k])

DigitChar(d) == SubSeq("0123456789", d + 1, d + 1)
IsDigit(c) == c \in {DigitChar(d) : d \in 0..9}
DigitVal(c) == CHOOSE d \in 0..9 : DigitChar(d) = c
CharAt(s, i) == IF i \in 1..Len(s) THEN SubSeq(s, i, i) ELSE ""
Zeros(n) == SubSeq("0000000000000000", 1, n)
StripLeadingZeros(ds) ==
    SubSeq(ds, Least({i \in 1..(Len(ds) + 1) : CharAt(ds, i) # "0"}), Len(ds))
StripZeros(ds) ==
    SubSeq(ds, 1, Greatest({i \in 0..Len(ds) : CharAt(ds, i) # "0"}))
\* the decimal digits of a in threes
RECURSIVE Digits3s(_)
Digits3s(a) ==
    IF a = <<>> THEN ""
    ELSE Digits3s(DivSmall(a, 1000))
         \o DigitChar(RemAbove(a, 1000, 0) \div 100)
         \o DigitChar((RemAbove(a, 1000, 0) \div 10) % 10)
         \o DigitChar(RemAbove(a, 1000, 0) % 10)
\* the decimal digits of a, none for zero
Digits(a) == StripLeadingZeros(Digits3s(a))
\* the number a few decimal digits write
RECURSIVE Small(_)
Small(ds) ==
    IF ds = "" THEN 0
    ELSE 10 * Small(SubSeq(ds, 1, Len(ds) - 1)) + DigitVal(SubSeq(ds, Len(ds), Len(ds)))
\* the number the decimal digits ds write, three digits at a time
RECURSIVE FromDigits(_)
Horner(h, ds) ==
    IF h = <<>> THEN Trim(<<Small(ds)>>)
    ELSE Add(Mul(h, Trim(<<10^Len(ds)>>)), Trim(<<Small(ds)>>))
FromDigits(ds) ==
    IF Len(ds) <= 3 THEN Trim(<<Small(ds)>>)
    ELSE Horner(FromDigits(SubSeq(ds, 1, Len(ds) - 3)), SubSeq(ds, Len(ds) - 2, Len(ds)))

\* A float format: p bits of precision, the finite floats are the m * 2^e with
\* m < 2^p and emin <= e <= emax.  ryu writes a float without an exponent when
\* its decimal point comes at most plain digits after the first digit and
\* fewer than -small zeros before it.
F64 == [p |-> 53, emin |-> -1074, emax |-> 971, plain |-> 16, small |-> -5]
F32 == [p |-> 24, emin |-> -149, emax |-> 104, plain |-> 13, small |-> -6]

\* A float without its sign: m * 2^e with m as large as emin allows.
Finite(m, e) == [kind |-> "finite", m |-> m, e |-> e]
Zero == [kind |-> "zero", m |-> <<>>, e |-> 0]
Infinite == [kind |-> "infinite", m |-> <<>>, e |-> 0]

\* The float m * 2^e, m of at most p bits or 2^p.
Normal(m, e, fmt) ==
    IF m = <<>> THEN Zero
    ELSE IF BitLen(m) > fmt.p
         THEN (IF e + 1 > fmt.emax THEN Infinite ELSE Finite(Pow2(fmt.p - 1), e + 1))
    ELSE IF e > fmt.emax THEN Infinite ELSE Finite(m, e)
\* the exponent of the floats from 2^lg to 2^(lg + 1)
ExponentAt(lg, fmt) == IF lg - (fmt.p - 1) > fmt.emin THEN lg - (fmt.p - 1) ELSE fmt.emin
\* The float nearest to (n / d) * 2^s, ties to the even one: with lg the
\* logarithm of the number or one less, q is twice the number in units of the
\* floats at lg, rounded down.
RECURSIVE RoundAt(_, _, _, _, _)
RoundHalf(q, half, lg, fmt) ==
    Normal(IF Odd(q.q) /\ (~q.exact \/ Odd(half)) THEN Add(half, One) ELSE half,
           ExponentAt(lg, fmt), fmt)
RoundQuot(q, n, d, s, lg, fmt) ==
    IF BitLen(q.q) > fmt.p + 1 THEN RoundAt(n, d, s, lg + 1, fmt)
    ELSE RoundHalf(q, DivSmall(q.q, 2), lg, fmt)
RoundScaled(scaled, up, n, d, s, lg, fmt) ==
    RoundQuot(FloorQuot(IF up THEN scaled ELSE n, IF up THEN d ELSE scaled, fmt.p + 2),
              n, d, s, lg, fmt)
RoundAt(n, d, s, lg, fmt) ==
    LET k == s - ExponentAt(lg, fmt) + 1
    IN RoundScaled(Mul(IF k >= 0 THEN n ELSE d, Pow2(IF k >= 0 THEN k ELSE -k)),
                   k >= 0, n, d, s, lg, fmt)
Round(n, d, s, fmt) ==
    IF n = <<>> THEN Zero ELSE RoundAt(n, d, s, s + BitLen(n) - BitLen(d) - 1, fmt)

\* Whether c is read as the float: it is when it lies between the floats'
\* bounds, the bounds themselves when the float is even.
In(c, b) ==
    /\ IF b.even THEN Cmp(Add(c, b.below), b.v) >= 0 ELSE Cmp(Add(c, b.below), b.v) > 0
    /\ IF b.even THEN Cmp(c, b.upper) <= 0 ELSE Cmp(c, b.upper) < 0
\* The two numbers of the digits ds times unit that the float lies between.
CandidateIn(lo, hi, b) ==
    [lo |-> lo, hi |-> hi, inLo |-> In(lo, b), inHi |-> In(hi, b)]
CandidateOf(lo, unit, b) == CandidateIn(lo, Add(lo, unit), b)
Candidate(c, unit, b) == CandidateOf(Mul(c, unit), unit, b)
\* the digits cs without the zeros they end with, and the power of ten they
\* are times when cs is times 10^k
ShortestResult(cs, k) ==
    [digits |-> StripZeros(cs), k |-> k + Len(cs) - Len(StripZeros(cs))]
\* of the two candidates of n digits, the one nearer to the float, the even
\* one when they are as near
ShortestPick(b, len, ds, n, c) ==
    LET near == Cmp(Add(c.lo, c.hi), Add(b.v, b.v))
        up == /\ c.inHi
              /\ \/ ~c.inLo
                 \/ IF DigitVal(SubSeq(ds, n, n)) % 2 = 1 THEN near <= 0 ELSE near < 0
    IN ShortestResult(IF up THEN Digits(Add(FromDigits(SubSeq(ds, 1, n)), One))
                      ELSE SubSeq(ds, 1, n),
                      b.x + len - n)
\* The fewest digits, from n digits on: ds are the first digits of b.v, beyond
\* is 10 to the number of its digits beyond them.
RECURSIVE ShortestFrom(_, _, _, _, _)
ShortestTry(b, len, beyond, ds, n, c) ==
    IF c.inLo \/ c.inHi THEN ShortestPick(b, len, ds, n, c)
    ELSE ShortestFrom(b, len, beyond, ds, n + 1)
ShortestFrom(b, len, beyond, ds, n) ==
    ShortestTry(b, len, beyond, ds, n,
                Candidate(FromDigits(SubSeq(ds, 1, n)), Mul(beyond, Pow(Ten, Len(ds) - n)), b))
\* the first 17 digits of the float are enough for an f64
ShortestDigits(b, len, beyond) ==
    ShortestFrom(b, len, beyond, Digits(FloorQuot(b.v, beyond, 57).q), 1)
\* len is the number of digits of b.v, from 10^base
ShortestPow(b, base, pow, len) ==
    ShortestDigits(b, len, Mul(pow, Pow(Ten, (IF len > 17 THEN len - 17 ELSE 0) - base)))
\* b.v has est digits or up to two more
ShortestAt(b, est, base, pow) ==
    ShortestPow(b, base, pow,
                Least({l \in est..(est + 2) : Cmp(b.v, Mul(pow, Pow(Ten, l - base))) < 0}))
ShortestEst(b, est, base) == ShortestAt(b, est, base, Pow(Ten, base))
ShortestLen(b) ==
    ShortestEst(b, ((BitLen(b.v) - 1) * 30103) \div 100000,
                IF ((BitLen(b.v) - 1) * 30103) \div 100000 > 17
                THEN ((BitLen(b.v) - 1) * 30103) \div 100000 - 17 ELSE 0)
ShortestBounds(v, below, above, even, x) ==
    ShortestLen([v |-> v, below |-> below, upper |-> Add(v, above), even |-> even, x |-> x])
ShortestTwice(a, fmt, unit, twice) ==
    ShortestBounds(Mul(a.m, Add(twice, twice)),
                   IF a.m = Pow2(fmt.p - 1) /\ a.e > fmt.emin THEN unit ELSE twice,
                   twice, ~Odd(a.m), IF a.e >= 2 THEN 0 ELSE a.e - 2)
ShortestUnit(a, fmt, unit) == ShortestTwice(a, fmt, unit, Add(unit, unit))
\* The digits ryu writes for a finite float m * 2^e and the power of ten they
\* are times: the fewest digits that read back as the float, the nearest to
\* it when there is a choice.  The float is 4m in units of 2^(e - 2), and it
\* is read from what lies between 4m - 2 (4m - 1 when the floats below are
\* half as far apart) and 4m + 2; the unit is made a whole number of powers
\* of ten, 10^x.
Shortest(a, fmt) ==
    ShortestUnit(a, fmt, IF a.e >= 2 THEN Pow2(a.e - 2) ELSE Pow(<<5>>, 2 - a.e))

\* ryu::Buffer::format_finite on the digits
Pretty(ds, k, fmt) ==
    LET kk == Len(ds) + k
    IN IF 0 <= k /\ kk <= fmt.plain THEN ds \o Zeros(k) \o ".0"
       ELSE IF 0 < kk /\ kk <= fmt.plain
            THEN SubSeq(ds, 1, kk) \o "." \o SubSeq(ds, kk + 1, Len(ds))
       ELSE IF fmt.small < kk /\ kk <= 0 THEN "0." \o Zeros(-kk) \o ds
       ELSE IF Len(ds) = 1 THEN ds \o "e" \o ToString(kk - 1)
       ELSE SubSeq(ds, 1, 1) \o "." \o SubSeq(ds, 2, Len(ds)) \o "e" \o ToString(kk - 1)
PrettyShortest(s, fmt) == Pretty(s.digits, s.k, fmt)

\* The name of a float: "inf" is the infinite one.
Name(neg, a, fmt) ==
    (IF neg THEN "-" ELSE "") \o
    (IF a = Zero THEN "0.0"
     ELSE IF a = Infinite THEN "inf"
     ELSE PrettyShortest(Shortest(a, fmt), fmt))

\* the number of digits of s from its character i on
DigitRun(s, i) ==
    Least({n \in 0..Len(s) : ~IsDigit(CharAt(s, i + n))})
\* A JSON number literal in its parts: sign, integer digits, fraction digits,
\* exponent sign and digits.  The integer digits are from character i to
\* before a, the fraction digits from after a to before b, the exponent digits
\* from c on.
LiteralExponent(text, i, a, b, c) ==
    [ ok |-> /\ a > i
             /\ a = i + 1 \/ CharAt(text, i) # "0"
             /\ b # a + 1
             /\ c > b => DigitRun(text, c) > 0
             /\ c + DigitRun(text, c) = Len(text) + 1,
      neg |-> i = 2,
      int |-> SubSeq(text, i, a - 1),
      hasFrac |-> b > a,
      frac |-> SubSeq(text, a + 1, b - 1),
      hasExp |-> c > b,
      expNeg |-> c = b + 2 /\ CharAt(text, b + 1) = "-",
      exp |-> SubSeq(text, c, c + DigitRun(text, c) - 1) ]
LiteralDecimal(text, i, a, b) ==
    LiteralExponent(text, i, a, b,
                    IF CharAt(text, b) \in {"e", "E"}
                    THEN (IF CharAt(text, b + 1) \in {"+", "-"} THEN b + 2 ELSE b + 1)
                    ELSE b)
LiteralInteger(text, i, a) ==
    LiteralDecimal(text, i, a,
                   IF CharAt(text, a) = "." THEN a + 1 + DigitRun(text, a + 1) ELSE a)
Literal(text) ==
    LiteralInteger(text, IF CharAt(text, 1) = "-" THEN 2 ELSE 1,
                   (IF CharAt(text, 1) = "-" THEN 2 ELSE 1)
                       + DigitRun(text, IF CharAt(text, 1) = "-" THEN 2 ELSE 1))

\* parse_exponent_overflow: an exponent of ten or more digits, out of the
\* range of i32 or as far beyond every float as one that is.
ExponentOverflows(l) == Len(StripLeadingZeros(l.exp)) > 9
\* the exponent written, within i32
ExponentOf(l) ==
    IF l.expNeg THEN 0 - Small(StripLeadingZeros(l.exp)) ELSE Small(StripLeadingZeros(l.exp))

\* u64::MAX = 2^64 - 1 and the magnitude of i64::MIN = 2^63
U64Max == <<Limb - 1, Limb - 1, Limb - 1, Limb - 1, Limb - 1, 15>>
I64Min == <<0, 0, 0, 0, 0, 8>>
FitsU64(ds) == Len(ds) <= 20 /\ Cmp(FromDigits(ds), U64Max) <= 0
\* The digits taken into the significand: digit after digit of ds, after the
\* digits before, as long as the number they write fits a u64.
Taken(before, ds) ==
    Greatest({n \in 0..Len(ds) : FitsU64(StripLeadingZeros(before \o SubSeq(ds, 1, n)))})

\* parse_integer, then parse_long_integer from the digit that does not fit:
\* every digit left out is a power of ten.
IntegerTaken(ds, n) ==
    [digits |-> SubSeq(ds, 1, n), exponent |-> Len(ds) - n, long |-> n < Len(ds)]
IntegerDigits(ds) == IntegerTaken(ds, Taken("", ds))
\* parse_decimal, then parse_decimal_overflow from the digit that does not fit:
\* the digits left out are dropped.
DecimalTaken(i, frac, n) ==
    [digits |-> i.digits \o SubSeq(frac, 1, n), exponent |-> i.exponent - n, long |-> i.long]
DecimalDigits(i, frac) == DecimalTaken(i, frac, Taken(i.digits, frac))

\* the f64 of POW10
Pow10F(k) == Round(Pow(Ten, k), One, 0, F64)
\* f * pow when up, f / pow otherwise, as the processor rounds it
Scaled(f, pow, up) ==
    IF f = Zero THEN Zero
    ELSE Round(IF up THEN Mul(f.m, pow.m) ELSE f.m, IF up THEN One ELSE pow.m,
               IF up THEN f.e + pow.e ELSE f.e - pow.e, F64)
\* f64_from_parts: None when the number is out of range; g is f times or by
\* the power of ten of the exponent, or by 10^308 when POW10 has no such power
RECURSIVE F64FromParts(_, _)
F64Scaled(f, exponent, g) ==
    IF exponent >= -308 /\ exponent <= 308 THEN (IF g = Infinite THEN None ELSE Some(g))
    ELSE IF f = Zero THEN Some(f)
    ELSE IF exponent >= 0 THEN None
    ELSE F64FromParts(g, exponent + 308)
F64FromParts(f, exponent) ==
    F64Scaled(f, exponent,
              Scaled(f, Pow10F(IF exponent > 308 \/ exponent < -308 THEN 308
                               ELSE IF exponent >= 0 THEN exponent ELSE -exponent),
                     exponent >= 0))

\* What the parser hands to the visitor: an integer (u64 or i64) sig, or the
\* f64 f; None when the number is out of range.
Integer(neg, sig) == [int |-> TRUE, neg |-> neg, sig |-> sig, f |-> Zero]
Float(neg, f) == [int |-> FALSE, neg |-> neg, sig |-> <<>>, f |-> f]
OptFloat64(neg, of) == [i \in DOMAIN of |-> Float(neg, of[i])]

\* parse_number and parse_exponent over the digits read: sig is the
\* significand and x the power of ten it is times, f the f64 of sig, or of
\* sig * 10^x when the whole number is read at once.
ParsedNumber(l, long, whole, sig, x, f) ==
    IF ~l.hasFrac /\ ~l.hasExp /\ ~long
    THEN IF l.neg /\ (sig = <<>> \/ Cmp(sig, I64Min) > 0)
         THEN Some(Float(l.neg, f))
         ELSE Some(Integer(l.neg, sig))
    ELSE IF ExponentOverflows(l)
    THEN IF sig # <<>> /\ ~l.expNeg THEN None ELSE Some(Float(l.neg, Zero))
    ELSE IF whole
    THEN IF sig = <<>> \/ Len(StripLeadingZeros(l.int \o l.frac)) + x < -330
         THEN Some(Float(l.neg, Zero))
         ELSE IF Len(StripLeadingZeros(l.int \o l.frac)) + x > 310 \/ f = Infinite THEN None
         ELSE Some(Float(l.neg, f))
    ELSE OptFloat64(l.neg, F64FromParts(f, x))
\* Read whole, the number is rounded once, to the float asked for (an f32 with
\* single_precision, set by deserialize_f32); an infinite one is out of range.
ParserNumber(l, long, whole, sig, x, fmt) ==
    ParsedNumber(l, long, whole, sig, x,
                 Round(IF whole THEN Mul(sig, Pow(Ten, IF x > 0 THEN x ELSE 0)) ELSE sig,
                       IF whole THEN Pow(Ten, IF x < 0 THEN -x ELSE 0) ELSE One, 0,
                       IF whole THEN fmt ELSE F64))
\* With float_roundtrip a number with a fraction or an exponent, or too long
\* for a u64, is read whole, from all its digits.
ParseDigits(l, d, whole, fmt) ==
    ParserNumber(l, d.long, whole,
                 FromDigits(StripLeadingZeros(IF whole THEN l.int \o l.frac ELSE d.digits)),
                 IF whole THEN ExponentOf(l) - Len(l.frac) ELSE d.exponent + ExponentOf(l),
                 fmt)
ParseDecimal(l, i, float_roundtrip, fmt) ==
    ParseDigits(l, IF l.hasFrac THEN DecimalDigits(i, l.frac) ELSE i,
                float_roundtrip /\ (l.hasFrac \/ l.hasExp \/ i.long), fmt)
\* the number a literal is to serde_json when a float fmt is asked for,
\* float_roundtrip whether it was built with that feature
ParseNumber(l, float_roundtrip, fmt) ==
    ParseDecimal(l, IntegerDigits(l.int), float_roundtrip, fmt)

\* visit_u64, visit_i64 and visit_f64 of the f64 and the f32 visitor: `as`
As(n, fmt) ==
    IF ~n.int /\ n.f.kind # "finite" THEN n.f
    ELSE Round(IF n.int THEN n.sig ELSE n.f.m, One, IF n.int THEN 0 ELSE n.f.e, fmt)

\* The f64 and the f32 a literal reads as, by name.
ReadLiteral(l, float_roundtrip, fmt) ==
    IF l.ok THEN ParseNumber(l, float_roundtrip, fmt) ELSE None
ReadNumber(text, float_roundtrip, fmt) == ReadLiteral(Literal(text), float_roundtrip, fmt)
ReadingOf(n, fmt) == IF n = None THEN Err ELSE Ok(Name(n[1].neg, As(n[1], fmt), fmt))
F64Of(text, float_roundtrip) == ReadingOf(ReadNumber(text, float_roundtrip, F64), F64)
F32Of(text, float_roundtrip) == ReadingOf(ReadNumber(text, float_roundtrip, F32), F32)

\* A float of RagChatCompletionsRequest that serde_json writes in full and
\* reads in full only when built with float_roundtrip.
HardF64 == "1.0715660391465826e-75"
\* The f64 values of the requests that hold a float with all its digits: a
\* float written with an exponent that has a sign, and an infinite one, too.
F64Values == {"0.5", HardF64, "1e16", "inf"}
\* An f32 of a RagScoredPoint or a RetrieveObject that is not finite.
F32Values == {"inf", "-inf"}

\* The readings of the literals the requests of the specifications are written
\* with, computed once.
WrittenF64 == {FloatText(x) : x \in (Floats \cup Penalties \cup F64Values) \ NonFinite}
WrittenF32 == {FloatText(x) : x \in (Floats \cup F32Values) \ NonFinite}
ReadingsF64 == [t \in WrittenF64 |-> [float_roundtrip \in BOOLEAN |-> F64Of(t, float_roundtrip)]]
ReadingsF32 == [t \in WrittenF32 |-> [float_roundtrip \in BOOLEAN |-> F32Of(t, float_roundtrip)]]
ReadF64(text, float_roundtrip) ==
    IF text \in WrittenF64 THEN ReadingsF64[text][float_roundtrip]
    ELSE F64Of(text, float_roundtrip)
ReadF32(text, float_roundtrip) ==
    IF text \in WrittenF32 THEN ReadingsF32[text][float_roundtrip]
    ELSE F32Of(text, float_roundtrip)

\* A float field takes a float literal and an integer literal.
DeF32(j, float_roundtrip) ==
    IF j.k \in {"float", "uint"}
    THEN ReadF32(IF j.k = "float" THEN j.v ELSE ToString(j.v), float_roundtrip) ELSE Err
DeF64(j, float_roundtrip) ==
    IF j.k \in {"float", "uint"}
    THEN ReadF64(IF j.k = "float" THEN j.v ELSE ToString(j.v), float_roundtrip) ELSE Err

DeVecString(j) ==
    IF j.k # "arr" THEN Err
    ELSE IF \A i \in DOMAIN j.v : DeString(j.v[i]).ok
         THEN Ok([i \in DOMAIN j.v |-> DeString(j.v[i]).v]) ELSE Err
DeVecExt(j) ==
    IF j.k # "arr" THEN Err
    ELSE IF \A i \in DOMAIN j.v : DeExt(j.v[i]).ok
         THEN Ok([i \in DOMAIN j.v |-> DeExt(j.v[i]).v]) ELSE Err
\* HashMap<String, f64>: a key written twice keeps its last value
DeMapF64(j, float_roundtrip) ==
    IF j.k # "obj" THEN Err
    ELSE IF \A i \in DOMAIN j.v : DeF64(j.v[i][2], float_roundtrip).ok
         THEN Ok([t \in Keys(j.v) |-> DeF64(Lookup(j.v, t), float_roundtrip).v]) ELSE Err

\* A field of type Option<T>, j what is under its key and r the reading of j as
\* a T: None when the key is missing or null.  (A field of type T is read from
\* what is under its key, and a missing key fails as any wrong type does.)
DeOpt(j, r) ==
    IF j.k \in {"missing", "null"} THEN Ok(None)
    ELSE IF r.ok THEN Ok(Some(r.v)) ELSE Err

\* The struct, when every field decoded.
DeStruct(fields) ==
    IF \A f \in DOMAIN fields : fields[f].ok
    THEN Ok([f \in DOMAIN fields |-> fields[f].v]) ELSE Err

\* A derived Deserialize reads a struct from an object in which none of its
\* fields is written twice, or from an array of all its fields in the order
\* they are declared; names the keys in that order.
StructForm(j, names) ==
    \/ j.k = "arr" /\ Len(j.v) = Len(names)
    \/ j.k = "obj" /\ \A i \in DOMAIN names : Cardinality(Occurrences(j.v, names[i])) <= 1
\* what is read for the field written under key
At(j, names, key) ==
    IF j.k = "arr" THEN j.v[CHOOSE i \in DOMAIN names : names[i] = key]
    ELSE Get(j.v, key)

DeInputText(j) ==
    IF j.k = "str" THEN Ok(InputString(j.v))
    ELSE LET a == DeVecString(j) IN IF a.ok THEN Ok(InputArrayOfStrings(a.v)) ELSE Err

EmbeddingRequestKeys == <<"model", "input", "encoding_format", "user">>

\* EmbeddingRequest of embeddings.rs, as the tests of rag.rs show it read.
DeEmbeddingRequest(j) ==
    LET F(key) == At(j, EmbeddingRequestKeys, key)
    IN IF ~StructForm(j, EmbeddingRequestKeys) THEN Err
       ELSE DeStruct([ model           |-> DeString(F("model")),
                       input           |-> DeInputText(F("input")),
                       encoding_format |-> DeOpt(F("encoding_format"), DeString(F("encoding_format"))),
                       user            |-> DeOpt(F("user"), DeString(F("user"))) ])

RagEmbeddingRequestKeys == <<"embeddings", "url", "collection_name">>

\* #[derive(Deserialize)] of RagEmbeddingRequest
DeRagEmbeddingRequest(j) ==
    LET F(key) == At(j, RagEmbeddingRequestKeys, key)
    IN IF ~StructForm(j, RagEmbeddingRequestKeys) THEN Err
       ELSE DeStruct([ embedding_request      |-> DeEmbeddingRequest(F("embeddings")),
                       qdrant_url             |-> DeString(F("url")),
                       qdrant_collection_name |-> DeString(F("collection_name")) ])

RagChatCompletionsRequestKeys ==
    << "chat_model", "messages", "embedding_model", "encoding_format", "qdrant_url",
       "qdrant_collection_name", "limit", "temperature", "top_p", "n_choice", "stream",
       "stream_options", "stop", "max_tokens", "presence_penalty", "frequency_penalty",
       "logit_bias", "user", "response_format", "tools", "tool_choice", "context_window" >>

\* #[derive(Deserialize)] of RagChatCompletionsRequest
DeRagChatCompletionsRequest(j, float_roundtrip) ==
    LET F(key) == At(j, RagChatCompletionsRequestKeys, key)
        OptF64(key) == DeOpt(F(key), DeF64(F(key), float_roundtrip))
    IN IF ~StructForm(j, RagChatCompletionsRequestKeys) THEN Err
       ELSE DeStruct([
        chat_model             |-> DeOpt(F("chat_model"), DeString(F("chat_model"))),
        messages               |-> DeVecExt(F("messages")),
        embedding_model        |-> DeString(F("embedding_model")),
        encoding_format        |-> DeOpt(F("encoding_format"), DeString(F("encoding_format"))),
        qdrant_url             |-> DeString(F("qdrant_url")),
        qdrant_collection_name |-> DeString(F("qdrant_collection_name")),
        limit                  |-> DeU64(F("limit")),
        temperature            |-> OptF64("temperature"),
        top_p                  |-> OptF64("top_p"),
        n_choice               |-> DeOpt(F("n_choice"), DeU64(F("n_choice"))),
        stream                 |-> DeOpt(F("stream"), DeBool(F("stream"))),
        stream_options         |-> DeOpt(F("stream_options"), DeExt(F("stream_options"))),
        stop                   |-> DeOpt(F("stop"), DeVecString(F("stop"))),
        max_tokens             |-> DeOpt(F("max_tokens"), DeU64(F("max_tokens"))),
        presence_penalty       |-> OptF64("presence_penalty"),
        frequency_penalty      |-> OptF64("frequency_penalty"),
        logit_bias             |-> DeOpt(F("logit_bias"), DeMapF64(F("logit_bias"), float_roundtrip)),
        user                   |-> DeOpt(F("user"), DeString(F("user"))),
        response_format        |-> DeOpt(F("response_format"), DeExt(F("response_format"))),
        tools                  |-> DeOpt(F("tools"), DeVecExt(F("tools"))),
        tool_choice            |-> DeOpt(F("tool_choice"), DeExt(F("tool_choice"))),
        context_window         |-> DeOpt(F("context_window"), DeU64(F("context_window"))) ])

RagScoredPointKeys == <<"source", "score">>

\* #[derive(Deserialize)] of RagScoredPoint
DeRagScoredPoint(j, float_roundtrip) ==
    LET F(key) == At(j, RagScoredPointKeys, key)
    IN IF ~StructForm(j, RagScoredPointKeys) THEN Err
       ELSE DeStruct([ source |-> DeString(F("source")),
                       score  |-> DeF32(F("score"), float_roundtrip) ])

DePoints(j, float_roundtrip) ==
    IF j.k # "arr" THEN Err
    ELSE IF \A i \in DOMAIN j.v : DeRagScoredPoint(j.v[i], float_roundtrip).ok
         THEN Ok([i \in DOMAIN j.v |-> DeRagScoredPoint(j.v[i], float_roundtrip).v])
         ELSE Err

RetrieveObjectKeys == <<"points", "limit", "score_threshold">>

\* #[derive(Deserialize)] of RetrieveObject
DeRetrieveObject(j, float_roundtrip) ==
    LET F(key) == At(j, RetrieveObjectKeys, key)
    IN IF ~StructForm(j, RetrieveObjectKeys) THEN Err
       ELSE DeStruct([ points          |-> DeOpt(F("points"), DePoints(F("points"), float_roundtrip)),
                       limit           |-> DeU64(F("limit")),
                       score_threshold |-> DeF32(F("score_threshold"), float_roundtrip) ])

\* The HashMap of a value, the empty one when it has none.
MapKeys(ty, v) ==
    IF ty = "RagChatCompletionsRequest" /\ IsSome(v.logit_bias)
    THEN DOMAIN Unwrap(v.logit_bias) ELSE {}

\* serde_json::to_string(&value), ks the order the iterator of its HashMap takes
ToJson(ty, v, ks) ==
    CASE ty = "RagEmbeddingRequest" -> SerRagEmbeddingRequest(v)
      [] ty = "RagChatCompletionsRequest" -> SerRagChatCompletionsRequest(v, ks)
      [] ty = "RetrieveObject" -> SerRetrieveObject(v)
      [] ty = "RagScoredPoint" -> SerRagScoredPoint(v)

\* serde_json::from_str::<ty>(json)
FromJson(ty, j, float_roundtrip) ==
    CASE ty = "RagEmbeddingRequest" -> DeRagEmbeddingRequest(j)
      [] ty = "RagChatCompletionsRequest" -> DeRagChatCompletionsRequest(j, float_roundtrip)
      [] ty = "RetrieveObject" -> DeRetrieveObject(j, float_roundtrip)
      [] ty = "RagScoredPoint" -> DeRagScoredPoint(j, float_roundtrip)

Typed(ty, v) == [ty |-> ty, v |-> v]

Inputs == {<<>>, <<"Hello, world!">>}
EmbeddingRequests ==
    [ model           : {"model"},
      input           : {InputString("Hello, world!")}
                        \cup {InputArrayOfStrings(a) : a \in Inputs},
      encoding_format : Opt({"float"}),
      user            : Opt(Users) ]
RagEmbeddingRequests ==
    {RagEmbeddingRequestNew(i, u, c) : i \in Inputs, u \in Urls, c \in Collections}
    \cup
    {from_embedding_request(e, "http://localhost:6333", "qdrant_collection_name")
       : e \in EmbeddingRequests}

RagScoredPoints == [source : {"source", ""}, score : Floats]
PointLists == UNION {[1..n -> RagScoredPoints] : n \in 0..MaxPoints}
\* a score or a score_threshold that is not finite
InfinitePoints == [source : {"source"}, score : F32Values]
RetrieveObjects ==
    [points : Opt(PointLists), limit : Counts, score_threshold : Floats]
    \cup [points : {None}, limit : {MaxCount}, score_threshold : F32Values]
    \cup [points : {Some(<<p>>) : p \in InfinitePoints}, limit : {MaxCount},
          score_threshold : Floats]

\* Requests whose f64 fields hold a float with all its digits, and whose
\* logit_bias has several keys.
JsonLogitBiases ==
    LogitBiases \cup {[t \in {"50256", "198"} |-> IF t = "198" THEN HardF64 ELSE "0.5"]}
PrecisionRequests ==
    { [BuilderNew(ConvMessages, "http://localhost:6333", "docs", MaxCount)
         EXCEPT !.temperature = t, !.frequency_penalty = f, !.logit_bias = b]
      : t \in Opt(F64Values), f \in Opt(F64Values), b \in Opt(JsonLogitBiases) }

JsonValues ==
    {Typed("RagEmbeddingRequest", v) : v \in RagEmbeddingRequests}
    \cup {Typed("RagChatCompletionsRequest", v) : v \in RagRequests \cup PrecisionRequests}
    \cup {Typed("RetrieveObject", v) : v \in RetrieveObjects}
    \cup {Typed("RagScoredPoint", v) : v \in RagScoredPoints \cup InfinitePoints}

InitJson ==
    /\ jpc = "value"
    /\ \E x \in JsonValues : val = Some(x)
    /\ json = None
    /\ dec = None
    /\ features \in Features
    /\ BuilderIdle
    /\ ConvIdle

Serialize ==
    /\ jpc = "value"
    /\ \E ks \in IterationOrders(MapKeys(Unwrap(val).ty, Unwrap(val).v)) :
          json' = Some(ToJson(Unwrap(val).ty, Unwrap(val).v, ks))
    /\ jpc' = "encoded"
    /\ UNCHANGED <<val, dec, features, bvars, cvars>>

Deserialize ==
    /\ jpc = "encoded"
    /\ dec' = Some(FromJson(Unwrap(val).ty, Unwrap(json), "float_roundtrip" \in features))
    /\ jpc' = "decoded"
    /\ UNCHANGED <<val, json, features, bvars, cvars>>

NextJson ==
    \/ Serialize
    \/ Deserialize

SpecJson == InitJson /\ [][NextJson]_vars

----------------------------------------------------------------------------
(* Claims about the JSON contract, checked under SpecJson. *)

Encoded == jpc \in {"encoded", "decoded"}
ValTy == Unwrap(val).ty
ValV == Unwrap(val).v
JsonMembers == Unwrap(json).v

\* The Option fields of RagChatCompletionsRequest; each is written under its own name.
RagOptionalFields ==
    { "chat_model", "encoding_format", "temperature", "top_p", "n_choice", "stream",
      "stream_options", "stop", "max_tokens", "presence_penalty", "frequency_penalty",
      "logit_bias", "user", "response_format", "tools", "tool_choice", "context_window" }

\* C7: an optional field left unset is not a key of the serialized object, for
\* every optional field of RagEmbeddingRequest, RagChatCompletionsRequest (tools
\* and tool_choice included) and RetrieveObject.
C7_OmissionLaw ==
    Encoded =>
        CASE ValTy = "RagChatCompletionsRequest" ->
                \A f \in RagOptionalFields : IsNone(ValV[f]) => ~HasKey(JsonMembers, f)
          [] ValTy = "RetrieveObject" ->
                IsNone(ValV.points) => ~HasKey(JsonMembers, "points")
          [] ValTy = "RagEmbeddingRequest" ->
                \A f \in {"encoding_format", "user"} :
                    IsNone(ValV.embedding_request[f])
                        => ~HasKey(Lookup(JsonMembers, "embeddings").v, f)
          [] OTHER -> TRUE

\* C8: decoding the JSON a value was encoded to gives the value back; a
\* RetrieveObject without points is written without the points key and read back
\* without points, one with points is read back with the same points in order.
C8_RoundTrip ==
    jpc = "decoded" =>
        /\ dec = Some(Ok(ValV))
        /\ (ValTy = "RetrieveObject" /\ ~HasKey(JsonMembers, "points")) =>
              /\ Unwrap(dec).v.points = None
              /\ Unwrap(dec).v.limit = Lookup(JsonMembers, "limit").v
              /\ SerFloat(Unwrap(dec).v.score_threshold)
                    = Lookup(JsonMembers, "score_threshold")

====
